---- MODULE Spec2Model ----
(***************************************************************************)
(* Model of the deep-sdf data-creation and latent-synthesis pipeline:      *)
(*   src/deep_sdf/src/synthesize.py   (interpolate, selection, ledger loop, *)
(*                                     trace_back_to_origin)                *)
(*   src/deep_sdf/src/data_creator.py (load_mesh, get_normalized_mesh,      *)
(*                                     DataCreator.create)                  *)
(* Real numbers are exact rationals <<numerator, denominator>>; strings    *)
(* that the code formats and parses are sequences of one-character strings.*)
(***************************************************************************)
EXTENDS Integers, Sequences, FiniteSets, TLC

VARIABLES
    \* ---- infinite_synthesis (synthesize.py:193-289) ----
    trained,          \* len(sdf_decoder.latent_codes)
    synthesis_count,  \* the synthesis_count argument
    data,             \* synthesized_latent_codes["data"], the in-memory ledger
    disk,             \* the ledger file infinite_synthesized_latent_codes.npz
    files,            \* names of the mesh files present in save_dir
    pc,               \* position of the run inside infinite_synthesis
    cand,             \* locals of the iteration: name, synthesis_type, code, sample
    parents,          \* ghost: per ledger position, the indices the sample held
    initial_length,   \* ghost: ledger length when the current run entered the loop
    appended,         \* ghost: appends completed by the current run
    calls,            \* ghost: synthesize() invocations so far, all runs
    skipped,          \* ghost: the iteration that ended last was skipped
    \* ---- SynthesizerHelper.interpolate (synthesize.py:21-41) ----
    ipc, icodes, ifactors, iresult,
    \* ---- DataCreatorHelper mesh operations (data_creator.py:73-200) ----
    heap,             \* mesh objects, addressed by position
    mlog,             \* the calls made so far: operation, arguments, result
    \* ---- DataCreator.create (data_creator.py:229-296) ----
    self,             \* the DataCreator object: its translate_mode
    cpc,              \* position inside create
    listing,          \* os.listdir(raw_data_path): file names with their content
    results,          \* per task of the pool, the (mesh, length) it returned
    pending,          \* tasks of the pool that have not finished
    corpus_max_length, \* max_length of create
    cls,              \* the class counter of create
    meshIdx,          \* position of the for loop over meshes
    archives,         \* the .npz files in save_path
    written           \* ghost: the archive written for each processed mesh

synthVars  == <<trained, synthesis_count, data, disk, files, pc, cand, parents,
                initial_length, appended, calls, skipped>>
interpVars == <<ipc, icodes, ifactors, iresult>>
meshVars   == <<heap, mlog>>
createVars == <<self, cpc, listing, results, pending, corpus_max_length, cls,
                meshIdx, archives, written>>
vars       == <<synthVars, interpVars, meshVars, createVars>>

-----------------------------------------------------------------------------
(* Bounds of the model *)

MaxTrained == 3      \* largest number of pretrained latent codes
MaxCount   == 5      \* largest synthesis_count argument
MaxCrashTrained == 2 \* most trained codes when runs are interrupted
MaxCrashCount == 4   \* largest synthesis_count when runs are interrupted
MaxSynth   == 2      \* synthesize() calls followed when runs are interrupted

-----------------------------------------------------------------------------
(* Exact rational arithmetic: the values of tensors and vertex coordinates *)

Abs(n) == IF n < 0 THEN -n ELSE n

RECURSIVE GCD(_, _)
GCD(a, b) == IF b = 0 THEN a ELSE GCD(b, a % b)

RNorm(n, d) ==
    LET g == GCD(Abs(n), Abs(d))
        s == IF d < 0 THEN -1 ELSE 1
    IN  <<(s * n) \div g, (s * d) \div g>>

R(n)        == <<n, 1>>
RAdd(a, b)  == RNorm(a[1] * b[2] + b[1] * a[2], a[2] * b[2])
RSub(a, b)  == RNorm(a[1] * b[2] - b[1] * a[2], a[2] * b[2])
RMul(a, b)  == RNorm(a[1] * b[1], a[2] * b[2])
RInv(a)     == RNorm(a[2], a[1])
RLess(a, b) == a[1] * b[2] < b[1] * a[2]
RLeq(a, b)  == a[1] * b[2] <= b[1] * a[2]

\* element-wise tensor operations
VAdd(u, v)   == [i \in DOMAIN u |-> RAdd(u[i], v[i])]
VSub(u, v)   == [i \in DOMAIN u |-> RSub(u[i], v[i])]
VScale(u, f) == [i \in DOMAIN u |-> RMul(u[i], f)]

-----------------------------------------------------------------------------
(* Strings: str(), int(), str.split(), str.replace() as Python computes them *)

Digits == <<"0", "1", "2", "3", "4", "5", "6", "7", "8", "9">>

IsDigit(c) == \E i \in 1..10 : Digits[i] = c

DigitVal(c) == (CHOOSE i \in 1..10 : Digits[i] = c) - 1

\* str(n) for an int n >= 0
RECURSIVE IntToStr(_)
IntToStr(n) ==
    IF n < 10 THEN <<Digits[n + 1]>>
    ELSE IntToStr(n \div 10) \o <<Digits[(n % 10) + 1]>>

\* int(s): the value of a non-empty string of decimal digits, else ValueError (-1)
RECURSIVE StrToIntAcc(_, _)
StrToIntAcc(s, acc) ==
    IF s = <<>> THEN acc
    ELSE StrToIntAcc(Tail(s), acc * 10 + DigitVal(Head(s)))

StrToInt(s) ==
    IF s # <<>> /\ \A i \in 1..Len(s) : IsDigit(s[i])
    THEN StrToIntAcc(s, 0)
    ELSE -1

StartsWith(s, t) == Len(s) >= Len(t) /\ SubSeq(s, 1, Len(t)) = t

\* s.split(sep): cut at every non-overlapping occurrence of sep, left to right
RECURSIVE SplitAcc(_, _, _)
SplitAcc(s, sep, cur) ==
    IF s = <<>> THEN <<cur>>
    ELSE IF StartsWith(s, sep)
         THEN <<cur>> \o SplitAcc(SubSeq(s, Len(sep) + 1, Len(s)), sep, <<>>)
         ELSE SplitAcc(Tail(s), sep, Append(cur, Head(s)))

Split(s, sep) == SplitAcc(s, sep, <<>>)

\* s.replace(old, new)
RECURSIVE Replace(_, _, _)
Replace(s, old, new) ==
    IF s = <<>> THEN <<>>
    ELSE IF StartsWith(s, old)
         THEN new \o Replace(SubSeq(s, Len(old) + 1, Len(s)), old, new)
         ELSE <<Head(s)>> \o Replace(Tail(s), old, new)

RECURSIVE StripZeros(_)
StripZeros(s) ==
    IF Len(s) > 1 /\ s[Len(s)] = "0" THEN StripZeros(SubSeq(s, 1, Len(s) - 1))
    ELSE s

\* str(f) of a float f = k/1000 rounded to 3 decimals, 0 < k < 1000
FloatToStr(k) ==
    <<"0", ".">> \o StripZeros(<<Digits[(k \div 100) + 1],
                                 Digits[((k \div 10) % 10) + 1],
                                 Digits[(k % 10) + 1]>>)

Sep    == <<"_", "_">>
ObjExt == <<".", "o", "b", "j">>

-----------------------------------------------------------------------------
(* SynthesizerHelper.interpolate *)

\* the outcome of a call: the assert of line 32 raised, or a tensor returned
Raised      == [error |-> TRUE, value |-> <<>>]
Returned(v) == [error |-> FALSE, value |-> v]

\* the two weights exchanged
RECURSIVE interpolate_loop_weights_swapped(_, _, _, _)
interpolate_loop_weights_swapped(interpolated, codes, factors, fi) ==
    IF fi > Len(factors) THEN interpolated
    ELSE interpolate_loop_weights_swapped(
             VAdd(VScale(interpolated, factors[fi]),
                  VScale(codes[fi + 1], RSub(R(1), factors[fi]))),
             codes, factors, fi + 1)

\* lines 37-39: the loop over enumerate(factors)
RECURSIVE interpolate_loop(_, _, _, _)
interpolate_loop(interpolated, codes, factors, fi) ==
    IF fi > Len(factors) THEN interpolated
    ELSE interpolate_loop(
             VAdd(VScale(interpolated, RSub(R(1), factors[fi])),
                  VScale(codes[fi + 1], factors[fi])),
             codes, factors, fi + 1)

interpolate(codes, factors) ==
    IF Len(codes) - 1 # Len(factors) THEN Raised
    ELSE IF Len(codes) = 1 THEN Returned(codes[1])
    ELSE Returned(interpolate_loop(codes[1], codes, factors, 1))

-----------------------------------------------------------------------------
(* Synthesizer: the two random selections *)

\* the trained latent codes of the decoder (fixed parameters during synthesis)
latent_codes(n) == [i \in 1..n |-> <<R(i - 1), R(2 - i)>>]

\* the values of round(0.25 + 0.5 * random(), 3) the model draws, in thousandths
Factors == {250}

Min(a, b) == IF a < b THEN a ELSE b

\* data_to_sample[: len(sdf_decoder.latent_codes)] when the coin says so
Restrict(d, n, restrict) == IF restrict THEN SubSeq(d, 1, Min(n, Len(d))) ELSE d

\* random.choices in place of random.sample: positions may repeat
Samples_with_replacement(pool, k) == [1..k -> 1..Len(pool)]

\* random.sample(pool, k): every ordered choice of k distinct positions;
\* empty when k > len(pool), where random.sample raises ValueError
Samples(pool, k) ==
    {s \in [1..k -> 1..Len(pool)] : \A i, j \in 1..k : i # j => s[i] # s[j]}

InterpolationPool(d, n, restrict) ==
    SelectSeq(Restrict(d, n, restrict), LAMBDA rd : rd.synthesis_type # "arithmetic")

\* the synthesis_type filter of line 106 left out
ArithmeticPool_unfiltered(d, n, restrict) == Restrict(d, n, restrict)

ArithmeticPool(d, n, restrict) ==
    SelectSeq(Restrict(d, n, restrict), LAMBDA rd : rd.synthesis_type # "interpolation")

\* the sampled records named by their 1-based position instead of their index
RECURSIVE JoinIndices_one_based(_)
JoinIndices_one_based(rds) ==
    IF Len(rds) = 1 THEN IntToStr(rds[1].index + 1)
    ELSE JoinIndices_one_based(SubSeq(rds, 1, Len(rds) - 1)) \o Sep
           \o IntToStr(rds[Len(rds)].index + 1)

RECURSIVE JoinIndices(_)
JoinIndices(rds) ==
    IF Len(rds) = 1 THEN IntToStr(rds[1].index)
    ELSE JoinIndices(SubSeq(rds, 1, Len(rds) - 1)) \o Sep \o IntToStr(rds[Len(rds)].index)

\* all but the last sampled code are added, the last one is subtracted
RECURSIVE ArithmeticCode(_, _, _)
ArithmeticCode(acc, rest, rdi) ==
    IF rdi > Len(rest) THEN acc
    ELSE ArithmeticCode(IF rdi # Len(rest) THEN VAdd(acc, rest[rdi].latent_code)
                                           ELSE VSub(acc, rest[rdi].latent_code),
                        rest, rdi + 1)

random_interpolation_synthesis(d, n, restrict, s, k) ==
    LET data_to_sample == InterpolationPool(d, n, restrict)
        random_data    == [i \in 1..2 |-> data_to_sample[s[i]]]
    IN  [selected_indices |-> JoinIndices(random_data),
         factor           |-> k,
         latent_code      |-> interpolate(<<random_data[1].latent_code,
                                            random_data[2].latent_code>>,
                                          <<RNorm(k, 1000)>>).value,
         random_data      |-> random_data]

random_arithmetic_operations_synthesis(d, n, restrict, s) ==
    LET data_to_sample == ArithmeticPool(d, n, restrict)
        random_data    == [i \in 1..3 |-> data_to_sample[s[i]]]
    IN  [selected_indices |-> JoinIndices(random_data),
         latent_code      |-> ArithmeticCode(random_data[1].latent_code,
                                             Tail(random_data), 1),
         random_data      |-> random_data]

InterpolationName(r) ==
    r.selected_indices \o Sep \o Replace(FloatToStr(r.factor), <<".">>, <<"-">>) \o ObjExt

ArithmeticName(r) == r.selected_indices \o ObjExt

-----------------------------------------------------------------------------
(* infinite_synthesis: the ledger and the loop *)

\* the seeded ledger: one "initial" record per trained latent code
Seed(n) ==
    [k \in 1..n |-> [name           |-> k - 1,
                     index          |-> k - 1,
                     synthesis_type |-> "initial",
                     latent_code    |-> latent_codes(n)[k]]]

NoFile == [exists |-> FALSE, synthesized_data |-> <<>>]

\* the ledger the function starts from: the file if it exists, else the seed
Load(f, n) == IF f.exists THEN f.synthesized_data ELSE Seed(n)

NoCand == [name |-> <<>>, synthesis_type |-> "none", latent_code |-> <<>>,
           random_data |-> <<>>, restrict |-> FALSE]

IndicesOf(rds) == [i \in DOMAIN rds |-> rds[i].index]

Running == {"loop", "select", "sample", "check", "synth", "append", "save"}

SynthInit(maxTrained, maxCount) ==
    /\ trained \in 0..maxTrained
    /\ synthesis_count \in 0..maxCount
    /\ data = Seed(trained)
    /\ disk = NoFile
    /\ files = {}
    /\ pc = "loop"
    /\ cand = NoCand
    /\ parents = [k \in 1..trained |-> <<>>]
    /\ initial_length = trained
    /\ appended = 0
    /\ calls = 0
    /\ skipped = FALSE

\* the test lets one more iteration through: <= in place of <
LoopTest_inclusive ==
    /\ pc = "loop"
    /\ pc' = IF Len(data) <= synthesis_count THEN "select" ELSE "done"
    /\ UNCHANGED <<trained, synthesis_count, data, disk, files, cand, parents,
                   initial_length, appended, calls, skipped>>

\* line 236: the while condition
LoopTest ==
    /\ pc = "loop"
    /\ pc' = IF Len(data) < synthesis_count THEN "select" ELSE "done"
    /\ UNCHANGED <<trained, synthesis_count, data, disk, files, cand, parents,
                   initial_length, appended, calls, skipped>>

\* lines 239, 63 and 103: the coin that picks the branch and the coin that
\* restricts the pool to the trained entries
Flip ==
    /\ pc = "select"
    /\ \E arithmetic \in BOOLEAN, restrict \in BOOLEAN :
         cand' = [NoCand EXCEPT
                    !.synthesis_type = IF arithmetic THEN "arithmetic"
                                                     ELSE "interpolation",
                    !.restrict = restrict]
    /\ pc' = "sample"
    /\ UNCHANGED <<trained, synthesis_count, data, disk, files, parents,
                   initial_length, appended, calls, skipped>>

\* lines 240-247: the arithmetic branch
SelectArithmetic ==
    /\ pc = "sample"
    /\ cand.synthesis_type = "arithmetic"
    /\ \E s \in Samples(ArithmeticPool(data, trained, cand.restrict), 3) :
         LET r == random_arithmetic_operations_synthesis(data, trained, cand.restrict, s)
         IN  cand' = [cand EXCEPT !.name        = ArithmeticName(r),
                                  !.latent_code = r.latent_code,
                                  !.random_data = r.random_data]
    /\ pc' = "check"
    /\ UNCHANGED <<trained, synthesis_count, data, disk, files, parents,
                   initial_length, appended, calls, skipped>>

\* lines 250-261: the interpolation branch
SelectInterpolation ==
    /\ pc = "sample"
    /\ cand.synthesis_type = "interpolation"
    /\ \E s \in Samples(InterpolationPool(data, trained, cand.restrict), 2),
          k \in Factors :
         LET r == random_interpolation_synthesis(data, trained, cand.restrict, s, k)
         IN  cand' = [cand EXCEPT !.name        = InterpolationName(r),
                                  !.latent_code = r.latent_code,
                                  !.random_data = r.random_data]
    /\ pc' = "check"
    /\ UNCHANGED <<trained, synthesis_count, data, disk, files, parents,
                   initial_length, appended, calls, skipped>>

\* random.sample raises ValueError (lines 68, 108); nothing catches it
SelectFails ==
    /\ pc = "sample"
    /\ \/ /\ cand.synthesis_type = "arithmetic"
          /\ Samples(ArithmeticPool(data, trained, cand.restrict), 3) = {}
       \/ /\ cand.synthesis_type = "interpolation"
          /\ Samples(InterpolationPool(data, trained, cand.restrict), 2) = {}
    /\ pc' = "error"
    /\ UNCHANGED <<trained, synthesis_count, data, disk, files, cand, parents,
                   initial_length, appended, calls, skipped>>

\* the existence test left out
Exists_never(name, fs) == FALSE

\* lines 263-264: os.path.exists(save_name) -> continue
Exists(name, fs) == name \in fs

CheckExists ==
    /\ pc = "check"
    /\ IF Exists(cand.name, files)
       THEN pc' = "loop" /\ cand' = NoCand /\ skipped' = TRUE
       ELSE pc' = "synth" /\ cand' = cand /\ skipped' = skipped
    /\ UNCHANGED <<trained, synthesis_count, data, disk, files, parents,
                   initial_length, appended, calls>>

\* lines 266-273 and 179-190: the decoder runs; the mesh is exported unless
\* extract_mesh returned None
Synthesize ==
    /\ pc = "synth"
    /\ \E mesh_is_none \in BOOLEAN :
         files' = IF mesh_is_none THEN files ELSE files \cup {cand.name}
    /\ calls' = calls + 1
    /\ pc' = "append"
    /\ UNCHANGED <<trained, synthesis_count, data, disk, cand, parents,
                   initial_length, appended, skipped>>

\* the index taken after the append instead of before it
synthesized_data_index_after(d, c) ==
    [name           |-> c.name,
     index          |-> Len(d) + 1,
     synthesis_type |-> c.synthesis_type,
     latent_code    |-> c.latent_code]

\* lines 275-282
synthesized_data(d, c) ==
    [name           |-> c.name,
     index          |-> Len(d),
     synthesis_type |-> c.synthesis_type,
     latent_code    |-> c.latent_code]

AppendRecord ==
    /\ pc = "append"
    /\ data' = Append(data, synthesized_data(data, cand))
    /\ parents' = Append(parents, IndicesOf(cand.random_data))
    /\ appended' = appended + 1
    /\ pc' = "save"
    /\ UNCHANGED <<trained, synthesis_count, disk, files, cand,
                   initial_length, calls, skipped>>

\* only the new record written instead of the whole ledger
savez_newest_only(d) == [exists |-> TRUE, synthesized_data |-> <<d[Len(d)]>>]

\* lines 284-287: np.savez rewrites the whole file
savez(d) == [exists |-> TRUE, synthesized_data |-> d]

Save ==
    /\ pc = "save"
    /\ disk' = savez(data)
    /\ cand' = NoCand
    /\ skipped' = FALSE
    /\ pc' = "loop"
    /\ UNCHANGED <<trained, synthesis_count, data, files, parents,
                   initial_length, appended, calls>>

\* the process is killed between two steps; its locals are gone
Interrupt ==
    /\ pc \in Running
    /\ pc' = "crashed"
    /\ cand' = NoCand
    /\ UNCHANGED <<trained, synthesis_count, data, disk, files, parents,
                   initial_length, appended, calls, skipped>>

\* infinite_synthesis is called again on the same save_dir after an
\* interruption (lines 212-234)
Restart ==
    /\ pc = "crashed"
    /\ data' = Load(disk, trained)
    /\ parents' = SubSeq(parents, 1, Len(Load(disk, trained)))
    /\ initial_length' = Len(Load(disk, trained))
    /\ appended' = 0
    /\ cand' = NoCand
    /\ skipped' = FALSE
    /\ pc' = "loop"
    /\ UNCHANGED <<trained, synthesis_count, disk, files, calls>>

Iteration ==
    \/ LoopTest
    \/ Flip
    \/ SelectArithmetic
    \/ SelectInterpolation
    \/ SelectFails
    \/ CheckExists
    \/ Synthesize
    \/ AppendRecord
    \/ Save

InterpIdle ==
    /\ ipc = "idle" /\ icodes = <<>> /\ ifactors = <<>> /\ iresult = Raised

MeshIdle == heap = <<>> /\ mlog = <<>>

CreateIdle ==
    /\ self = [translate_mode |-> "none"]
    /\ cpc = "idle" /\ listing = <<>> /\ results = <<>> /\ pending = {}
    /\ corpus_max_length = R(0) /\ cls = 0 /\ meshIdx = 0 /\ archives = {}
    /\ written = <<>>

\* one uninterrupted call of infinite_synthesis on an empty save_dir
Init == SynthInit(MaxTrained, MaxCount) /\ InterpIdle /\ MeshIdle /\ CreateIdle

Next == Iteration /\ UNCHANGED <<interpVars, meshVars, createVars>>

Spec == Init /\ [][Next]_vars

\* calls of infinite_synthesis that may be killed at any step and called again
InitCrash == SynthInit(MaxCrashTrained, MaxCrashCount) /\ InterpIdle /\ MeshIdle /\ CreateIdle

\* runs are followed up to MaxSynth decoder calls in total
NextCrash ==
    \/ /\ pc = "synth" => calls < MaxSynth
       /\ Iteration
       /\ UNCHANGED <<interpVars, meshVars, createVars>>
    \/ Interrupt /\ UNCHANGED <<interpVars, meshVars, createVars>>
    \/ Restart /\ UNCHANGED <<interpVars, meshVars, createVars>>

SpecCrash == InitCrash /\ [][NextCrash]_vars

-----------------------------------------------------------------------------
(* Calls of SynthesizerHelper.interpolate on arbitrary arguments *)

MaxCodes   == 3      \* longest list of latent codes
MaxFactors == 2      \* longest list of factors

CodeVals   == {<<R(0), R(0)>>, <<R(2), R(2)>>, <<R(1), R(-1)>>}
FactorVals == {R(0), R(1), RNorm(1, 2), RNorm(1, 4)}

SeqsUpTo(S, n) == UNION {[1..k -> S] : k \in 0..n}

InterpInit ==
    /\ ipc = "call"
    /\ icodes \in SeqsUpTo(CodeVals, MaxCodes)
    /\ ifactors \in SeqsUpTo(FactorVals, MaxFactors)
    /\ iresult = Raised

Interpolate ==
    /\ ipc = "call"
    /\ iresult' = interpolate(icodes, ifactors)
    /\ ipc' = "done"
    /\ UNCHANGED <<icodes, ifactors>>

SynthIdle ==
    /\ trained = 0 /\ synthesis_count = 0 /\ data = <<>> /\ disk = NoFile
    /\ files = {} /\ pc = "idle" /\ cand = NoCand /\ parents = <<>>
    /\ initial_length = 0 /\ appended = 0 /\ calls = 0
    /\ skipped = FALSE

InitInterp == InterpInit /\ SynthIdle /\ MeshIdle /\ CreateIdle

NextInterp == Interpolate /\ UNCHANGED <<synthVars, meshVars, createVars>>

SpecInterp == InitInterp /\ [][NextInterp]_vars

-----------------------------------------------------------------------------
(* DataCreatorHelper: meshes, get_normalized_mesh, load_mesh *)

\* a mesh object holds its vertices (rows of x, y, z), the watertight flag and
\* the path attribute; objects live in a heap and are named by their position

Axes == 1..3

SqNorm(v) == RAdd(RAdd(RMul(v[1], v[1]), RMul(v[2], v[2])), RMul(v[3], v[3]))

IsSquare(n) == \E r \in 0..n : r * r = n
ISqrt(n)    == CHOOSE r \in 0..n : r * r = n

\* the square root of a rational, where it is rational
HasSqrt(q) == IsSquare(q[1]) /\ IsSquare(q[2])
RSqrt(q)   == <<ISqrt(q[1]), ISqrt(q[2])>>

RMaxOf(S) == CHOOSE x \in S : \A y \in S : RLeq(y, x)
RMinOf(S) == CHOOSE x \in S : \A y \in S : RLeq(x, y)

Column(vs, a) == {vs[i][a] : i \in 1..Len(vs)}

\* np.max(np.linalg.norm(vertices, axis=1)), squared
MaxSqNorm(vs) == RMaxOf({SqNorm(vs[i]) : i \in 1..Len(vs)})
max_norm(vs)  == RSqrt(MaxSqNorm(vs))

\* mesh.bounds: the per-axis minimum and maximum
bounds(vs) == <<[a \in Axes |-> RMinOf(Column(vs, a))],
                [a \in Axes |-> RMaxOf(Column(vs, a))]>>

RECURSIVE RSum(_)
RSum(xs) == IF xs = <<>> THEN R(0) ELSE RAdd(Head(xs), RSum(Tail(xs)))

\* np.mean(vertices, axis=0)
mean(vs) == [a \in Axes |->
               RMul(RSum([i \in 1..Len(vs) |-> vs[i][a]]), RNorm(1, Len(vs)))]

ScaleAll(vs, f)     == [i \in 1..Len(vs) |-> VScale(vs[i], f)]
TranslateAll(vs, t) == [i \in 1..Len(vs) |-> VSub(vs[i], t)]
SwapYZ(vs)          == [i \in 1..Len(vs) |-> <<vs[i][1], vs[i][3], vs[i][2]>>]

\* max_length = None
NoLength == <<0, 0>>

\* line 85-88
LengthOf(vs, max_length) ==
    IF max_length # NoLength THEN max_length ELSE max_norm(vs)

\* the copy of line 83 left out: the argument itself is rescaled and returned
get_normalized_mesh_in_place(h, ref, max_length) ==
    LET length == LengthOf(h[ref].vertices, max_length)
    IN  [heap   |-> [h EXCEPT ![ref].vertices =
                                 ScaleAll(h[ref].vertices, RInv(length))],
         result |-> ref]

\* lines 83-92: the result is a new object, a copy with rescaled vertices
get_normalized_mesh(h, ref, max_length) ==
    LET length == LengthOf(h[ref].vertices, max_length)
    IN  [heap   |-> Append(h, [h[ref] EXCEPT !.vertices =
                                 ScaleAll(h[ref].vertices, RInv(length))]),
         result |-> Len(h) + 1]

MIN_BOUND        == "min_bound"
CENTER           == "center"
CENTER_WITHOUT_Z == "center_without_z"

\* the mean of the vertices taken for CENTER_WITHOUT_Z as it is for CENTER
translate_vector_mean_xy(vs, translate_mode) ==
    IF translate_mode = MIN_BOUND THEN bounds(vs)[1]
    ELSE IF translate_mode = CENTER THEN mean(vs)
    ELSE [mean(vs) EXCEPT ![3] = bounds(vs)[1][3]]

\* lines 183-189, for the three valid modes
translate_vector(vs, translate_mode) ==
    IF translate_mode = MIN_BOUND THEN bounds(vs)[1]
    ELSE IF translate_mode = CENTER THEN mean(vs)
    ELSE [[a \in Axes |-> RMul(RAdd(bounds(vs)[1][a], bounds(vs)[2][a]), RNorm(1, 2))]
            EXCEPT ![3] = bounds(vs)[1][3]]

ValidModes == {MIN_BOUND, CENTER, CENTER_WITHOUT_Z}

\* lines 166-181: the vertices before the translation.  raw is the content of
\* the file, repaired the mesh the watertight kernel returns when it is called
Loaded(raw, repaired, check_watertight) ==
    IF check_watertight /\ ~raw.watertight THEN repaired ELSE raw

Mapped(raw, repaired, map_z_to_y, check_watertight) ==
    LET loaded == Loaded(raw, repaired, check_watertight)
    IN  IF map_z_to_y THEN SwapYZ(loaded.vertices) ELSE loaded.vertices

\* lines 166-200.  The result is the heap after the call and the returned
\* object, or the ValueError of line 191.
load_mesh(h, path, raw, repaired, normalize, map_z_to_y, check_watertight, max_length, translate_mode) ==
    LET mapped     == Mapped(raw, repaired, map_z_to_y, check_watertight)
        translated == TranslateAll(mapped, translate_vector(mapped, translate_mode))
        mesh       == [vertices   |-> translated,
                       watertight |-> Loaded(raw, repaired, check_watertight).watertight,
                       path       |-> <<>>]
        h1         == Append(h, mesh)
        r          == IF normalize THEN get_normalized_mesh(h1, Len(h1), max_length)
                      ELSE [heap |-> h1, result |-> Len(h1)]
    IN  IF translate_mode \notin ValidModes
        THEN [heap |-> h, result |-> 0, error |-> TRUE]
        ELSE [heap   |-> [r.heap EXCEPT ![r.result].path = path],
              result |-> r.result,
              error  |-> FALSE]

-----------------------------------------------------------------------------
(* Calls of load_mesh and of get_normalized_mesh on arbitrary arguments *)

MaxVertices       == 3   \* most vertices of an input mesh
MaxNormalizeCalls == 2   \* longest chain of get_normalized_mesh calls

Points == {<<R(0), R(0), R(0)>>, <<R(3), R(4), R(0)>>,
           <<R(1), R(2), R(2)>>, <<R(-3), R(0), R(4)>>}

VertexLists == UNION {[1..k -> Points] : k \in 1..MaxVertices}

RawMeshes == [vertices : VertexLists, watertight : BOOLEAN]

\* what the watertight kernel may hand back
RepairedMeshes ==
    {[vertices   |-> <<<<R(0), R(0), R(0)>>, <<R(2), R(0), R(0)>>,
                       <<R(0), R(2), R(0)>>, <<R(0), R(0), R(1)>>>>,
      watertight |-> TRUE],
     [vertices   |-> <<<<R(1), R(1), R(1)>>, <<R(3), R(1), R(5)>>>>,
      watertight |-> FALSE]}

Modes   == ValidModes \cup {"bounding_box"}
Lengths == {NoLength, R(1), R(2), RNorm(1, 2)}

ObjPath == <<"a", ".", "o", "b", "j">>

\* the scale exists: a supplied one, or a max norm that is rational and not 0
Scalable(vs, max_length) ==
    max_length = NoLength => (HasSqrt(MaxSqNorm(vs)) /\ MaxSqNorm(vs) # R(0))

LoadInit == heap = <<>> /\ mlog = <<>>

LoadMesh ==
    /\ mlog = <<>>
    /\ \E raw \in RawMeshes, repaired \in RepairedMeshes, max_length \in Lengths,
          normalize \in BOOLEAN, map_z_to_y \in BOOLEAN,
          check_watertight \in BOOLEAN, translate_mode \in Modes :
         LET mapped == Mapped(raw, repaired, map_z_to_y, check_watertight)
             r == load_mesh(heap, ObjPath, raw, repaired, normalize, map_z_to_y,
                            check_watertight, max_length, translate_mode)
         IN  /\ (normalize /\ translate_mode \in ValidModes) =>
                    Scalable(TranslateAll(mapped, translate_vector(mapped, translate_mode)),
                             max_length)
             /\ heap' = r.heap
             /\ mlog' = <<[op             |-> "load_mesh",
                           translate_mode |-> translate_mode,
                           normalize      |-> normalize,
                           max_length     |-> max_length,
                           error          |-> r.error,
                           result         |-> r.result]>>

InitLoad == LoadInit /\ SynthIdle /\ InterpIdle /\ CreateIdle

NextLoad == LoadMesh /\ UNCHANGED <<synthVars, interpVars, createVars>>

SpecLoad == InitLoad /\ [][NextLoad]_vars

NormalizeInit ==
    /\ \E vs \in VertexLists :
         heap = <<[vertices |-> vs, watertight |-> TRUE, path |-> ObjPath]>>
    /\ mlog = <<>>

Normalize ==
    /\ Len(mlog) < MaxNormalizeCalls
    /\ \E ref \in 1..Len(heap), max_length \in Lengths :
         LET r == get_normalized_mesh(heap, ref, max_length)
         IN  /\ Scalable(heap[ref].vertices, max_length)
             /\ heap' = r.heap
             /\ mlog' = Append(mlog, [op         |-> "get_normalized_mesh",
                                      arg        |-> ref,
                                      before     |-> heap[ref].vertices,
                                      max_length |-> max_length,
                                      result     |-> r.result])

InitNormalize == NormalizeInit /\ SynthIdle /\ InterpIdle /\ CreateIdle

NextNormalize == Normalize /\ UNCHANGED <<synthVars, interpVars, createVars>>

SpecNormalize == InitNormalize /\ [][NextNormalize]_vars

-----------------------------------------------------------------------------
(* DataCreator.create *)

MaxFiles == 3        \* most entries of the raw data directory

EndsWith(str, suffix) ==
    Len(str) >= Len(suffix)
    /\ SubSeq(str, Len(str) - Len(suffix) + 1, Len(str)) = suffix

FileNames == {<<"a", ".", "o", "b", "j">>,
              <<"b", ".", "o", "b", "j">>,
              <<"a", ".", "v", "2", ".", "o", "b", "j">>,
              <<"n", ".", "t", "x", "t">>}

\* meshes whose max norm is rational under every translate mode
CorpusMeshes ==
    {[vertices   |-> <<<<R(1), R(1), R(2)>>, <<R(3), R(1), R(2)>>>>,
      watertight |-> TRUE],
     [vertices   |-> <<<<R(2), R(1), R(2)>>, <<R(4), R(0), R(2)>>, <<R(1), R(0), R(-2)>>>>,
      watertight |-> TRUE],
     [vertices   |-> <<<<R(0), R(2), R(-2)>>, <<R(0), R(-1), R(1)>>, <<R(2), R(-1), R(-2)>>>>,
      watertight |-> FALSE]}

\* what the watertight kernel may hand back for a mesh of the corpus
CorpusRepaired ==
    {[vertices   |-> <<<<R(0), R(2), R(-2)>>, <<R(0), R(-1), R(1)>>, <<R(2), R(-1), R(-2)>>>>,
      watertight |-> FALSE],
     [vertices   |-> <<<<R(1), R(1), R(2)>>, <<R(3), R(1), R(2)>>>>,
      watertight |-> TRUE]}

Listings ==
    {l \in UNION {[1..k -> [file : FileNames, raw : CorpusMeshes]] : k \in 0..MaxFiles} :
        \A i, j \in 1..Len(l) : i # j => l[i].file # l[j].file}

\* line 236-238: the entries that end with ".obj", in listing order
Paths(l) == SelectSeq(l, LAMBDA e : EndsWith(e.file, ObjExt))

\* lines 44-70: the mesh, translated and not normalized, and its max norm
load_mesh_and_compute_max_norm(path, raw, repaired, map_z_to_y, check_watertight, translate_mode) ==
    LET r == load_mesh(<<>>, path, raw, repaired, FALSE, map_z_to_y,
                       check_watertight, NoLength, translate_mode)
    IN  IF r.error THEN [error |-> TRUE, mesh |-> <<>>, length |-> R(0)]
        ELSE [error  |-> FALSE,
              mesh   |-> r.heap[r.result],
              length |-> max_norm(r.heap[r.result].vertices)]

NoResult == [error |-> FALSE, mesh |-> <<>>, length |-> R(0)]

\* line 286: os.path.basename(mesh.path).split(".")[0]
cls_name_of(file) == Split(file, <<".">>)[1]

NpzExt == <<".", "n", "p", "z">>

CreateInit ==
    /\ self \in [translate_mode : Modes]
    /\ listing \in Listings
    /\ cpc = "start"
    /\ results = <<>>
    /\ pending = {}
    /\ corpus_max_length = R(0)
    /\ cls = 0
    /\ meshIdx = 0
    /\ archives = {}
    /\ written = <<>>

\* lines 253-242: the tasks are handed to the pool
StartPool ==
    /\ cpc = "start"
    /\ results' = [i \in 1..Len(Paths(listing)) |-> NoResult]
    /\ pending' = 1..Len(Paths(listing))
    /\ cpc' = "pool"
    /\ UNCHANGED <<self, listing, corpus_max_length, cls, meshIdx, archives, written>>

\* one worker process finishes its task
Worker(i) ==
    /\ cpc = "pool"
    /\ i \in pending
    /\ \E repaired \in CorpusRepaired :
         results' = [results EXCEPT ![i] =
                       load_mesh_and_compute_max_norm(
                           Paths(listing)[i].file, Paths(listing)[i].raw, repaired,
                           TRUE, TRUE, self.translate_mode)]
    /\ pending' = pending \ {i}
    /\ UNCHANGED <<self, cpc, listing, corpus_max_length, cls, meshIdx, archives, written>>

\* starmap re-raises the ValueError of a worker
PoolRaises ==
    /\ cpc = "pool"
    /\ pending = {}
    /\ \E i \in 1..Len(results) : results[i].error
    /\ cpc' = "error"
    /\ UNCHANGED <<self, listing, results, pending, corpus_max_length, cls, meshIdx,
                   archives, written>>

\* lines 244-245 on an empty result list: zip(*results) cannot be unpacked
UnpackRaises ==
    /\ cpc = "pool"
    /\ pending = {}
    /\ Len(results) = 0
    /\ cpc' = "error"
    /\ UNCHANGED <<self, listing, results, pending, corpus_max_length, cls, meshIdx,
                   archives, written>>

\* the results are collected while tasks are still running
FanIn_without_join ==
    /\ cpc = "pool"
    /\ Len(results) > 0
    /\ \A i \in 1..Len(results) : ~results[i].error
    /\ corpus_max_length' = RMaxOf({results[i].length : i \in 1..Len(results)})
    /\ cls' = 0
    /\ meshIdx' = 1
    /\ cpc' = "loop"
    /\ UNCHANGED <<self, listing, results, pending, archives, written>>

\* lines 242-247 and 260: starmap returns once every task is done
FanIn ==
    /\ cpc = "pool"
    /\ pending = {}
    /\ Len(results) > 0
    /\ \A i \in 1..Len(results) : ~results[i].error
    /\ corpus_max_length' = RMaxOf({results[i].length : i \in 1..Len(results)})
    /\ cls' = 0
    /\ meshIdx' = 1
    /\ cpc' = "loop"
    /\ UNCHANGED <<self, listing, results, pending, archives, written>>

\* lines 262-265: the mesh rescaled by the corpus-wide length and moved
centralized_mesh(mesh, max_length) ==
    LET r          == get_normalized_mesh(<<mesh>>, 1, max_length)
        normalized == r.heap[r.result]
    IN  [normalized EXCEPT !.vertices =
            [k \in 1..Len(normalized.vertices) |->
                VAdd(normalized.vertices[k], <<RNorm(1, 2), RNorm(1, 2), R(0)>>)]]

\* lines 288-294: np.savez creates the file or replaces the one of that name
savez_archive(dir, archive) ==
    {a \in dir : a.file # archive.file} \cup {archive}

\* lines 261-296: one pass of the for loop
ProcessMesh ==
    /\ cpc = "loop"
    /\ meshIdx <= Len(results)
    /\ LET mesh     == results[meshIdx].mesh
           cls_name == cls_name_of(mesh.path)
           archive  == [file     |-> cls_name \o NpzExt,
                        cls      |-> cls,
                        cls_name |-> cls_name,
                        vertices |-> centralized_mesh(mesh, corpus_max_length).vertices]
       IN  /\ archives' = savez_archive(archives, archive)
           /\ written' = Append(written, archive)
    /\ cls' = cls + 1
    /\ meshIdx' = meshIdx + 1
    /\ UNCHANGED <<self, cpc, listing, results, pending, corpus_max_length>>

\* the for loop is exhausted and create returns
Finish ==
    /\ cpc = "loop"
    /\ meshIdx > Len(results)
    /\ cpc' = "done"
    /\ UNCHANGED <<self, listing, results, pending, corpus_max_length, cls, meshIdx,
                   archives, written>>

InitCreate == CreateInit /\ SynthIdle /\ InterpIdle /\ MeshIdle

NextCreate ==
    \/ StartPool /\ UNCHANGED <<synthVars, interpVars, meshVars>>
    \/ (\E i \in 1..MaxFiles : Worker(i)) /\ UNCHANGED <<synthVars, interpVars, meshVars>>
    \/ PoolRaises /\ UNCHANGED <<synthVars, interpVars, meshVars>>
    \/ UnpackRaises /\ UNCHANGED <<synthVars, interpVars, meshVars>>
    \/ FanIn /\ UNCHANGED <<synthVars, interpVars, meshVars>>
    \/ ProcessMesh /\ UNCHANGED <<synthVars, interpVars, meshVars>>
    \/ Finish /\ UNCHANGED <<synthVars, interpVars, meshVars>>

SpecCreate == InitCreate /\ [][NextCreate]_vars

-----------------------------------------------------------------------------
(* trace_back_to_origin *)

\* line 317: [int(i) for i in name.split("__")[:-1]]
InterpolationParents(name) ==
    LET parts == Split(name, Sep)
    IN  [i \in 1..(Len(parts) - 1) |-> StrToInt(parts[i])]

\* line 320: [int(i.replace(".obj", "")) for i in name.split("__")]
ArithmeticParents(name) ==
    LET parts == Split(name, Sep)
    IN  [i \in 1..Len(parts) |-> StrToInt(Replace(parts[i], ObjExt, <<>>))]

\* a stack in place of the queue: pop() instead of popleft()
RECURSIVE trace_back_loop_pop_right(_, _, _)
trace_back_loop_pop_right(latent_codes_data, queue, traced_data) ==
    IF queue = <<>> THEN traced_data
    ELSE LET current_index == queue[Len(queue)]
             current_data  == latent_codes_data[current_index + 1]
             rest          == SubSeq(queue, 1, Len(queue) - 1)
             indices ==
                 IF current_data.synthesis_type = "initial" THEN <<>>
                 ELSE IF current_data.synthesis_type = "interpolation"
                      THEN InterpolationParents(current_data.name)
                      ELSE ArithmeticParents(current_data.name)
         IN  trace_back_loop_pop_right(latent_codes_data, rest \o indices,
                                       Append(traced_data, current_data))

\* lines 306-322: the while loop over the deque
RECURSIVE trace_back_loop(_, _, _)
trace_back_loop(latent_codes_data, queue, traced_data) ==
    IF queue = <<>> THEN traced_data
    ELSE LET current_index == Head(queue)
             current_data  == latent_codes_data[current_index + 1]
             indices ==
                 IF current_data.synthesis_type = "initial" THEN <<>>
                 ELSE IF current_data.synthesis_type = "interpolation"
                      THEN InterpolationParents(current_data.name)
                      ELSE ArithmeticParents(current_data.name)
         IN  trace_back_loop(latent_codes_data, Tail(queue) \o indices,
                             Append(traced_data, current_data))

trace_back_to_origin(latent_codes_data, index) ==
    trace_back_loop(latent_codes_data, <<index>>, <<>>)

-----------------------------------------------------------------------------
(* Properties of the ledger and the synthesis loop *)

IsPrefix(a, b) == Len(a) <= Len(b) /\ SubSeq(b, 1, Len(a)) = a

\* C1: within one run of infinite_synthesis that started from a ledger whose
\* records have index = position, after n completed appends the ledger has
\* initial_length + n records, the record at position k has index k, and no
\* step of the run removes, reorders or replaces a record.
C1_LedgerAppend ==
    /\ [](/\ Len(data) = initial_length + appended
          /\ \A k \in 1..Len(data) : data[k].index = k - 1)
    /\ [][pc # "crashed" => IsPrefix(data, data')]_vars

\* a run resumed from a saved ledger has appended to it
C1_Witness ==
    /\ initial_length > trained
    /\ appended >= 1
    /\ pc = "loop"

\* C2: an iteration whose target filename already exists is skipped: control
\* returns to the loop test without synthesize() being called, and the
\* in-memory ledger, the ledger file and the mesh files stay as they are.
C2_SkipExisting ==
    [][(pc = "check" /\ cand.name \in files) =>
          /\ pc' = "loop"
          /\ data' = data
          /\ disk' = disk
          /\ files' = files
          /\ calls' = calls
          /\ appended' = appended]_vars

\* an iteration has been skipped after at least one record was synthesized
C2_Witness == skipped /\ pc = "loop" /\ appended >= 1 /\ calls = appended

\* C3: at every point of every run the ledger a restart would load is the
\* in-memory ledger without at most its newest record; the ledger file never
\* loses or changes a record it held; a run started after an interruption
\* begins from exactly the ledger the file holds.
C3_CrashSafe ==
    /\ [](/\ IsPrefix(Load(disk, trained), data)
          /\ Len(data) - Len(Load(disk, trained)) <= 1)
    /\ [][disk.exists =>
            /\ disk'.exists
            /\ IsPrefix(disk.synthesized_data, disk'.synthesized_data)]_vars
    /\ [][pc = "crashed" /\ pc' # "crashed" =>
            /\ data' = Load(disk, trained)
            /\ disk' = disk]_vars

\* a run was killed after its first record had been persisted and the mesh of
\* its next one, made from that record, had been written; the next run has
\* started from the one persisted record
C3_Witness ==
    /\ pc = "loop"
    /\ disk.exists
    /\ data = disk.synthesized_data
    /\ initial_length = trained + 1
    /\ appended = 0
    /\ \E f \in files :
         /\ \A k \in (trained + 1)..Len(data) : data[k].name # f
         /\ \E i \in 1..2 : InterpolationParents(f)[i] = trained

\* C4: a selection for interpolation holds 2 records, none of them
\* "arithmetic", with distinct indices; a selection for arithmetic holds 3
\* records, none of them "interpolation", with pairwise distinct indices.
C4_SelectionSound ==
    (pc \in {"check", "synth", "append", "save"}) =>
        LET rd == cand.random_data
            excluded == IF cand.synthesis_type = "interpolation"
                        THEN "arithmetic" ELSE "interpolation"
        IN  /\ cand.synthesis_type \in {"interpolation", "arithmetic"}
            /\ Len(rd) = IF cand.synthesis_type = "interpolation" THEN 2 ELSE 3
            /\ \A i \in 1..Len(rd) : rd[i].synthesis_type # excluded
            /\ \A i, j \in 1..Len(rd) : i # j => rd[i].index # rd[j].index

\* an unrestricted arithmetic selection was made from a ledger that holds an
\* interpolation record
C4_Witness ==
    /\ pc = "check"
    /\ cand.synthesis_type = "arithmetic"
    /\ ~cand.restrict
    /\ \E k \in 1..Len(data) : data[k].synthesis_type = "interpolation"

\* the pool of the iteration, computed from the ledger and the two coins
CandidatePool ==
    LET restricted == IF cand.restrict
                      THEN SubSeq(data, 1, Min(trained, Len(data)))
                      ELSE data
        excluded   == IF cand.synthesis_type = "interpolation"
                      THEN "arithmetic" ELSE "interpolation"
    IN  SelectSeq(restricted, LAMBDA r : r.synthesis_type # excluded)

Required == IF cand.synthesis_type = "interpolation" THEN 2 ELSE 3

\* C5: when the pool holds fewer entries than the draw requires, the
\* selection raises: the function is left with the error, nothing is appended
\* and no file is written, and the loop takes no further step.
C5_ExhaustionFatal ==
    /\ [][(pc = "sample" /\ Len(CandidatePool) < Required) =>
             /\ pc' = "error"
             /\ data' = data
             /\ disk' = disk
             /\ files' = files
             /\ calls' = calls]_vars
    /\ [][pc = "error" => pc' = "error"]_vars

\* the arithmetic draw failed on a ledger that had already grown
C5_Witness ==
    /\ pc = "error"
    /\ cand.synthesis_type = "arithmetic"
    /\ Len(CandidatePool) = 2
    /\ Len(data) > trained

RECURSIVE Flatten(_)
Flatten(ss) == IF ss = <<>> THEN <<>> ELSE Head(ss) \o Flatten(Tail(ss))

\* the indices in breadth-first order, level by level, over the indices each
\* record was sampled from
RECURSIVE LevelOrder(_)
LevelOrder(level) ==
    IF level = <<>> THEN <<>>
    ELSE level \o LevelOrder(Flatten([i \in 1..Len(level) |-> parents[level[i] + 1]]))

\* C6: for every index of the ledger, trace_back_to_origin returns the records
\* in breadth-first order from that index, an interpolation record followed
\* up through its two parents, an arithmetic record through all of them, an
\* "initial" record through none, and a record reached twice listed twice; for
\* an "initial" record the result is that record alone.
C6_TraceBreadthFirst ==
    pc = "save" =>
        \A index \in 0..(Len(data) - 1) :
            LET traced   == trace_back_to_origin(data, index)
                expected == LevelOrder(<<index>>)
            IN  /\ Len(traced) = Len(expected)
                /\ \A j \in 1..Len(traced) :
                       /\ traced[j].index = expected[j]
                       /\ traced[j] = data[expected[j] + 1]
                /\ data[index + 1].synthesis_type = "initial" =>
                       /\ Len(traced) = 1
                       /\ traced[1].index = index

\* a trace two levels deep in which one record is listed twice, the second
\* level not in the order a depth-first walk would give
C6_Witness ==
    /\ pc = "save"
    /\ \E index \in 0..(Len(data) - 1) :
         LET traced == trace_back_to_origin(data, index)
         IN  /\ Len(traced) >= 5
             /\ \E i, j \in 1..Len(traced) : i < j /\ traced[i].index = traced[j].index
             /\ traced[2].synthesis_type # "initial"
             /\ traced[3].synthesis_type = "initial"

-----------------------------------------------------------------------------
(* Properties of interpolate *)

\* the fold over the first k factors, stated on the prefix
RECURSIVE FoldUpTo(_, _, _)
FoldUpTo(codes, factors, k) ==
    IF k = 0 THEN codes[1]
    ELSE VAdd(VScale(FoldUpTo(codes, factors, k - 1), RSub(R(1), factors[k])),
              VScale(codes[k + 1], factors[k]))

\* C7: with len(factors) = len(codes) - 1 interpolate returns the left fold
\* result := result * (1 - f_i) + codes[i+1] * f_i started from codes[0]; it
\* returns a for ([a], []), a for ([a, b], [0]), b for ([a, b], [1]) and
\* [1, 1] for ([[0, 0], [2, 2]], [0.5]); with any other pair of lengths it
\* fails and returns no code.
C7_InterpolateFold ==
    ipc = "done" =>
        IF Len(ifactors) = Len(icodes) - 1
        THEN /\ ~iresult.error
             /\ iresult.value = FoldUpTo(icodes, ifactors, Len(ifactors))
             /\ Len(icodes) = 1 => iresult.value = icodes[1]
             /\ (Len(icodes) = 2 /\ ifactors[1] = R(0)) => iresult.value = icodes[1]
             /\ (Len(icodes) = 2 /\ ifactors[1] = R(1)) => iresult.value = icodes[2]
             /\ (icodes = <<<<R(0), R(0)>>, <<R(2), R(2)>>>> /\ ifactors = <<RNorm(1, 2)>>)
                    => iresult.value = <<R(1), R(1)>>
        ELSE iresult = Raised

\* three codes folded with two proper factors into a code that is none of them
C7_Witness ==
    /\ ipc = "done"
    /\ Len(icodes) = 3
    /\ ifactors = <<RNorm(1, 4), RNorm(1, 2)>>
    /\ ~iresult.error
    /\ \A i \in 1..3 : iresult.value # icodes[i]

-----------------------------------------------------------------------------
(* Properties of get_normalized_mesh and load_mesh *)

\* a call made on the result of an earlier call, both with the same supplied scale
Renormalized(i, j) ==
    /\ i < j
    /\ mlog[j].arg = mlog[i].result
    /\ mlog[i].max_length # NoLength
    /\ mlog[j].max_length = mlog[i].max_length

InputsUntouched ==
    \A i \in 1..Len(mlog) :
        /\ mlog[i].result # mlog[i].arg
        /\ heap[mlog[i].arg].vertices = mlog[i].before

\* C8 as claimed: normalizing the result of a normalization with the same
\* supplied max_length leaves the vertex positions as they are, and the call
\* never modifies its input mesh.
C8_Idempotent ==
    /\ \A i, j \in 1..Len(mlog) :
           Renormalized(i, j) =>
               heap[mlog[j].result].vertices = heap[mlog[i].result].vertices
    /\ InputsUntouched

AllAtOrigin(vs) == \A i \in 1..Len(vs) : vs[i] = <<R(0), R(0), R(0)>>

\* C8 amended: normalizing the result of a normalization with the same
\* supplied max_length L multiplies every vertex by 1/L once more, so the
\* positions stay the same only when L = 1 or every vertex is at the origin;
\* the call never modifies its input mesh.
C8_RescalesAgain ==
    /\ \A i, j \in 1..Len(mlog) :
           Renormalized(i, j) =>
               LET once  == heap[mlog[i].result].vertices
                   twice == heap[mlog[j].result].vertices
                   L     == mlog[i].max_length
               IN  /\ twice = [k \in 1..Len(once) |->
                                 [a \in Axes |-> RMul(once[k][a], RNorm(L[2], L[1]))]]
                   /\ (twice = once) <=> (L = R(1) \/ AllAtOrigin(once))
    /\ InputsUntouched

\* a mesh normalized twice with max_length 2 whose vertices moved both times
C8_Witness ==
    /\ Len(mlog) = 2
    /\ Renormalized(1, 2)
    /\ mlog[1].max_length = R(2)
    /\ heap[mlog[2].result].vertices # heap[mlog[1].result].vertices
    /\ heap[mlog[1].result].vertices # heap[1].vertices

RowsOf(i) == heap[mlog[i].result].vertices

MinCorner(vs)  == [a \in Axes |-> RMinOf(Column(vs, a))]
MaxCorner(vs)  == [a \in Axes |-> RMaxOf(Column(vs, a))]
Centroid(vs, a) == RMul(RSum([k \in 1..Len(vs) |-> vs[k][a]]), RNorm(1, Len(vs)))

LoadFailsOnly(i) ==
    (mlog[i].translate_mode \notin {"min_bound", "center", "center_without_z"}) =>
        (mlog[i].error /\ mlog[i].result = 0 /\ heap = <<>>)

MinBoundPost(i) ==
    mlog[i].translate_mode = "min_bound" =>
        (~mlog[i].error /\ MinCorner(RowsOf(i)) = <<R(0), R(0), R(0)>>)

CenterPost(i) ==
    mlog[i].translate_mode = "center" =>
        (~mlog[i].error /\ \A a \in Axes : Centroid(RowsOf(i), a) = R(0))

-----------------------------------------------------------------------------
(* Properties of DataCreator.create *)

\* C10: when create has returned on a directory with n mesh files, save_path
\* holds n archives, one per input mesh and none replaced by another mesh of
\* the run, their class ids are exactly 0..n-1, and the archive of the k-th
\* processed mesh holds cls = k.
C10_OneArchivePerMesh ==
    cpc = "done" =>
        LET n == Len(Paths(listing))
        IN  /\ Cardinality(archives) = n
            /\ {a.cls : a \in archives} = 0..(n - 1)
            /\ Len(written) = n
            /\ \A k \in 1..n :
                   /\ written[k].cls = k - 1
                   /\ written[k] \in archives

\* C11: in create, for every completion order of the pool's workers, the
\* per-mesh loop runs only once no task is pending; the corpus-wide max length
\* is the largest of the per-mesh max norms; every mesh is rescaled by that one
\* value, which leaves its max vertex norm at most 1; and the k-th mesh
\* processed is the mesh of the k-th discovered path.
C11_FanInBarrier ==
    /\ [](cpc \in {"start", "pool", "error"} => written = <<>>)
    /\ [](cpc \in {"loop", "done"} =>
            LET lengths == {max_norm(results[i].mesh.vertices) : i \in 1..Len(results)}
                offset  == <<RNorm(1, 2), RNorm(1, 2), R(0)>>
            IN  /\ pending = {}
                /\ Len(results) = Len(Paths(listing))
                /\ corpus_max_length \in lengths
                /\ \A l \in lengths : RLeq(l, corpus_max_length)
                /\ \A k \in 1..Len(written) :
                     LET rescaled == [j \in 1..Len(written[k].vertices) |->
                                        VSub(written[k].vertices[j], offset)]
                     IN  /\ rescaled = ScaleAll(results[k].mesh.vertices,
                                                RInv(corpus_max_length))
                         /\ RLeq(MaxSqNorm(rescaled), R(1))
                         /\ results[k].mesh.path = Paths(listing)[k].file
                         /\ written[k].cls_name = cls_name_of(Paths(listing)[k].file))
    /\ [][written' # written => cpc = "loop" /\ pending = {}]_vars

\* create has returned after rescaling several meshes of different max norms,
\* one of them by a length that is not its own
C11_Witness ==
    /\ cpc = "done"
    /\ Len(written) >= 2
    /\ \E i, j \in 1..Len(results) : results[i].length # results[j].length
    /\ \E k \in 1..Len(written) :
         MaxSqNorm([j \in 1..Len(written[k].vertices) |->
                      VSub(written[k].vertices[j], <<RNorm(1, 2), RNorm(1, 2), R(0)>>)])
           # R(1)

------------------------------------------------------------------------------
(* More properties of infinite_synthesis *)

\* the records appended by infinite_synthesis
Synthesized == (trained + 1)..Len(data)

\* C12: in every ledger reached from a freshly seeded ledger and an empty save
\* directory, no two non-initial records have the same name, and the mesh file
\* named by every non-initial record exists in the save directory.
C12_DedupByName ==
    /\ \A i, j \in Synthesized : i # j => data[i].name # data[j].name
    /\ \A i \in Synthesized : data[i].name \in files

Max(a, b) == IF a >= b THEN a ELSE b

\* C13: the loop appends only while the ledger is shorter than
\* synthesis_count, and the length tested at the top of an iteration is the
\* length the iteration appends to; the ledger is never longer than the larger
\* of its loaded length and synthesis_count; a run whose loaded ledger already
\* has synthesis_count records appends nothing and writes no ledger file; and
\* when the function has returned normally the ledger has at least
\* synthesis_count records.
C13_StopCondition ==
    /\ [](Len(data) <= Max(initial_length, synthesis_count))
    /\ [](pc \in {"select", "sample", "check", "synth", "append"} =>
            Len(data) < synthesis_count)
    /\ [](initial_length >= synthesis_count => appended = 0)
    /\ [](pc = "done" => Len(data) >= synthesis_count)
    /\ [][Len(data') > Len(data) => Len(data) < synthesis_count]_vars
    /\ [][pc # "crashed" /\ initial_length >= synthesis_count => disk' = disk]_vars

\* a run that loaded a ledger file already holding synthesis_count records
\* has returned without appending
C13_Witness ==
    /\ pc = "done"
    /\ disk.exists
    /\ initial_length > trained
    /\ initial_length >= synthesis_count
    /\ data = disk.synthesized_data
    /\ appended = 0

\* lines 316-320: the parent indices trace_back_to_origin reads from a name
ParsedParents(record) ==
    IF record.synthesis_type = "initial" THEN <<>>
    ELSE IF record.synthesis_type = "interpolation"
         THEN InterpolationParents(record.name)
         ELSE ArithmeticParents(record.name)

\* the while loop of trace_back_to_origin empties its queue within n rounds
RECURSIVE TraceEndsWithin(_, _, _)
TraceEndsWithin(latent_codes_data, queue, n) ==
    IF queue = <<>> THEN TRUE
    ELSE IF n = 0 THEN FALSE
    ELSE TraceEndsWithin(latent_codes_data,
                         Tail(queue) \o ParsedParents(latent_codes_data[Head(queue) + 1]),
                         n - 1)

\* the records a trace can list when every record has at most 3 parents, all
\* of smaller index: 1, 4, 13, 40, ...
RECURSIVE TraceBound(_)
TraceBound(index) == IF index = 0 THEN 1 ELSE 1 + 3 * TraceBound(index - 1)

\* C14: in every ledger built from a seeded ledger, the parent indices parsed
\* from the name of a non-initial record are positions of the ledger and
\* smaller than the record's own index, so that no record is its own ancestor,
\* and trace_back_to_origin ends for every index of the ledger.  Stated where
\* the ledger has just grown, at line 284.
C14_ParentsPrecede ==
    [](pc = "save" =>
        /\ \A k \in Synthesized :
             LET indices == ParsedParents(data[k])
             IN  /\ Len(indices) = IF data[k].synthesis_type = "interpolation" THEN 2 ELSE 3
                 /\ \A i \in 1..Len(indices) :
                      /\ indices[i] \in 0..(Len(data) - 1)
                      /\ indices[i] < data[k].index
                      /\ data[indices[i] + 1].index = indices[i]
        /\ \A index \in 0..(Len(data) - 1) :
             TraceEndsWithin(data, <<index>>, TraceBound(index)))

\* a record made from a synthesized record, whose trace passes through it, in
\* a ledger that also holds an arithmetic record
C14_Witness ==
    /\ pc = "save"
    /\ \E k \in Synthesized :
         /\ \E i \in 1..Len(ParsedParents(data[k])) :
              ParsedParents(data[k])[i] >= trained
         /\ Len(trace_back_to_origin(data, data[k].index)) >= 5
    /\ \E k \in Synthesized : data[k].synthesis_type = "arithmetic"

====
